---- MODULE Spec2Model ----
(***************************************************************************)
(* State-machine model of createVerkadaDeviceReport.py: the module-level   *)
(* credential check, the paginated fetch, the grouping by site, the per-   *)
(* site status charts, the fleet growth chart and the PDF report.          *)
(*                                                                         *)
(* Python strings that the program sorts or concatenates (site labels,     *)
(* file names, formatted dates) are sequences of character codes, so that  *)
(* sorted() is the code-point lexicographic order Python applies.          *)
(* Dictionaries are sequences of entries in insertion order, as Python     *)
(* dictionaries keep it.  Local time is taken to be UTC.                   *)
(***************************************************************************)
EXTENDS Integers, Sequences, FiniteSets, TLC

\* ---------------------------------------------------------------- bounds
MaxDevices == 3
MaxPages == 2

\* ------------------------------------------------------ program constants
PAGE_LIMIT == 200
YearDays == 365
SecondsPerDay == 86400

\* ------------------------------------------------------------ strings
West == <<87, 101, 115, 116>>
Arcade == <<65, 114, 99, 97, 100, 101>>
Mall == <<77, 97, 108, 108>>

\* "_status_bar.png"
StatusBarSuffix == <<95, 115, 116, 97, 116, 117, 115, 95, 98, 97, 114, 46, 112, 110, 103>>
\* "camera_growth_bar.png"
GrowthBarPath == <<99, 97, 109, 101, 114, 97, 95, 103, 114, 111, 119, 116, 104, 95, 98, 97, 114, 46, 112, 110, 103>>
\* "verkada_logo.png"
LogoPath == <<118, 101, 114, 107, 97, 100, 97, 95, 108, 111, 103, 111, 46, 112, 110, 103>>

StatusBarPath(site) == site \o StatusBarSuffix

\* Python's < on str: lexicographic by code point, a proper prefix is smaller.
RECURSIVE StrLess(_, _)
StrLess(a, b) ==
  IF b = <<>> THEN FALSE
  ELSE IF a = <<>> THEN TRUE
  ELSE IF Head(a) # Head(b) THEN Head(a) < Head(b)
  ELSE StrLess(Tail(a), Tail(b))

\* ------------------------------------------------------------ dates
Digit(d) == 48 + d

\* '%Y' and '%m' / '%d' of strftime: zero-padded decimal.
Format4(n) == <<Digit((n \div 1000) % 10), Digit((n \div 100) % 10), Digit((n \div 10) % 10), Digit(n % 10)>>
Format2(n) == <<Digit((n \div 10) % 10), Digit(n % 10)>>

\* datetime.fromtimestamp(epoch): the civil date of an epoch second (UTC).
FromTimestamp(epoch) ==
  LET z == (epoch \div SecondsPerDay) + 719468
      era == z \div 146097
      doe == z - era * 146097
      yoe == (doe - (doe \div 1460) + (doe \div 36524) - (doe \div 146096)) \div 365
      doy == doe - (365 * yoe + (yoe \div 4) - (yoe \div 100))
      mp == (5 * doy + 2) \div 153
      d == doy - ((153 * mp + 2) \div 5) + 1
      m == IF mp < 10 THEN mp + 3 ELSE mp - 9
      y == yoe + era * 400 + (IF m <= 2 THEN 1 ELSE 0)
  IN [year |-> y, month |-> m, day |-> d]

\* install_date.strftime('%Y-%m')
StrfYearMonth(epoch) ==
  LET t == FromTimestamp(epoch) IN Format4(t.year) \o <<45>> \o Format2(t.month)

\* datetime.fromtimestamp(...).strftime('%Y-%m-%d')
StrfDate(epoch) ==
  LET t == FromTimestamp(epoch)
  IN Format4(t.year) \o <<45>> \o Format2(t.month) \o <<45>> \o Format2(t.day)

\* ------------------------------------------------------------ environment
\* os.getenv("VERKADA_API_KEY"): unset (None), set to "", or set to a key.
EnvKeys ==
  { [set |-> FALSE, value |-> ""], [set |-> TRUE, value |-> ""], [set |-> TRUE, value |-> "key"] }

\* datetime.now(): whole seconds and microseconds of the run time.
RunTimes ==
  { [sec |-> 1730851200, usec |-> 0], [sec |-> 1730851200, usec |-> 500000] }

YearSeconds == YearDays * SecondsPerDay

\* Installation times the inventory draws from, relative to a run time:
\* a day before the cutoff, the cutoff second itself, one second inside the
\* window, forty days ago and yesterday.
OldDate(t) == t.sec - YearSeconds - SecondsPerDay
CutoffDate(t) == t.sec - YearSeconds
JustInsideDate(t) == t.sec - YearSeconds + 1
AutumnDate(t) == t.sec - 40 * SecondsPerDay
YesterdayDate(t) == t.sec - SecondsPerDay

\* Device records of the API: name, model and serial derive from a record's
\* position in the inventory, so every record is distinct.  First the
\* well-formed device kinds (all fields, status Live or Offline).
GoodKinds(t) ==
  << [site |-> West, status |-> "Live", date_added |-> YesterdayDate(t)],
     [site |-> Arcade, status |-> "Offline", date_added |-> AutumnDate(t)],
     [site |-> Mall, status |-> "Live", date_added |-> JustInsideDate(t)],
     [site |-> West, status |-> "Offline", date_added |-> OldDate(t)],
     [site |-> Arcade, status |-> "Live", date_added |-> CutoffDate(t)] >>

\* Malformed kinds: a status outside the two known ones, a record without a
\* site label, a record without an installation time.
BadKinds(t) ==
  << [site |-> Mall, status |-> "Unknown", date_added |-> YesterdayDate(t)],
     [status |-> "Live", date_added |-> YesterdayDate(t)],
     [site |-> West, status |-> "Live"] >>

Kinds(t) == GoodKinds(t) \o BadKinds(t)

\* The record with serial n of kind k.
MkCamera(n, k) == [name |-> n, model |-> "CD52", serial |-> n] @@ k

\* A small inventory served as one page: any list of at most MaxDevices kinds.
SmallServers(t) ==
  UNION { { << [i \in 1..n |-> MkCamera(i, Kinds(t)[f[i]])] >> : f \in [1..n -> 1..Len(Kinds(t))] } : n \in 0..MaxDevices }

\* Mocked bulk pages: any sequence of at most MaxPages pages of 0, 50 or
\* PAGE_LIMIT well-formed records, numbered consecutively across pages.
BulkPageSizes == {0, 50, PAGE_LIMIT}

RECURSIVE SumSeq(_)
SumSeq(s) == IF s = <<>> THEN 0 ELSE Head(s) + SumSeq(Tail(s))

BulkCamera(t, n) == MkCamera(n, GoodKinds(t)[(n % Len(GoodKinds(t))) + 1])

BulkPages(t, sizes) ==
  [p \in 1..Len(sizes) |->
     [i \in 1..sizes[p] |-> BulkCamera(t, SumSeq(SubSeq(sizes, 1, p - 1)) + i)]]

BulkServers(t) ==
  UNION { { BulkPages(t, sizes) : sizes \in [1..n -> BulkPageSizes] } : n \in 1..MaxPages }

\* The mocked API: the page served for a page token; past the last mocked
\* page the inventory is exhausted and the page is empty.
ServerResponse(pages, token) ==
  IF token \in 1..Len(pages) THEN pages[token] ELSE <<>>

NoError == "none"

VARIABLES
  API_KEY,      \* the credential read at import
  serverPages,  \* the pages the API serves, by page token
  now,          \* the run time
  pc,           \* the stage the run is in
  error,        \* the exception that ended the run, or NoError
  requests,     \* the GET requests issued so far, in order
  cameras,      \* fetch_camera_data's list, then main's cameras
  page,         \* fetch_camera_data's page counter
  sites,        \* main's sites dictionary (entries in insertion order)
  siteIdx,      \* position of the status-chart loop in sites
  files,        \* chart files in the working directory (write order)
  report        \* the PDF document: whether it was written, and its flowables

vars == <<API_KEY, serverPages, now, pc, error, requests, cameras, page, sites, siteIdx, files, report>>

Init ==
  /\ API_KEY \in EnvKeys
  /\ now \in RunTimes
  /\ serverPages \in SmallServers(now) \cup BulkServers(now)
  /\ pc = "load"
  /\ error = NoError
  /\ requests = <<>>
  /\ cameras = <<>>
  /\ page = 1
  /\ sites = <<>>
  /\ siteIdx = 1
  /\ files = <<>>
  /\ report = [written |-> FALSE, elements |-> <<>>]

\* ------------------------------------------------------------ import
\* A check that only tests for None: `API_KEY is None`.
NotKey_NoneOnly(k) == ~k.set

\* `not API_KEY`
NotKey(k) == ~k.set \/ k.value = ""

LoadModule ==
  /\ pc = "load" /\ error = NoError
  /\ IF NotKey(API_KEY)
       THEN error' = "ValueError" /\ pc' = pc
       ELSE error' = error /\ pc' = "fetch"
  /\ UNCHANGED <<API_KEY, serverPages, now, requests, cameras, page, sites, siteIdx, files, report>>

\* ------------------------------------------------------------ fetch
\* A loop test that also stops on a full page: `<= PAGE_LIMIT`.
LastPage_AtMost(data) == Len(data) <= PAGE_LIMIT

\* `len(data['cameras']) < PAGE_LIMIT`
LastPage(data) == Len(data) < PAGE_LIMIT

\* An assignment in place of the extend: `cameras = data['cameras']`.
Extend_Replace(list, data) == data

\* `cameras.extend(data['cameras'])`
Extend(list, data) == list \o data

\* `page += 1`
NextPage(p) == p + 1

\* One iteration of the `while True` loop of fetch_camera_data: the GET, the
\* JSON decoding (either may raise), the extend and the loop test.
FetchPage ==
  /\ pc = "fetch" /\ error = NoError
  /\ requests' = Append(requests, [page_token |-> page, page_limit |-> PAGE_LIMIT, x_api_key |-> API_KEY.value])
  /\ \E ok \in BOOLEAN :
       IF ~ok
         THEN /\ error' = "RequestError"
              /\ UNCHANGED <<pc, cameras, page>>
         ELSE LET data == ServerResponse(serverPages, page) IN
              /\ cameras' = Extend(cameras, data)
              /\ error' = error
              /\ IF LastPage(data)
                   THEN pc' = "group" /\ page' = page
                   ELSE pc' = pc /\ page' = NextPage(page)
  /\ UNCHANGED <<API_KEY, serverPages, now, sites, siteIdx, files, report>>

\* ------------------------------------------------------------ group
\* `key in dict` on a record or dictionary
HasKey(d, k) == k \in DOMAIN d

\* Position of a key in a dictionary's entries, 0 when absent.
RECURSIVE KeyIndex(_, _, _)
KeyIndex(entries, key, i) ==
  IF i > Len(entries) THEN 0
  ELSE IF entries[i].key = key THEN i
  ELSE KeyIndex(entries, key, i + 1)

\* A grouping that lost its membership test: `sites[site] = []` each time.
AddToSite_Reset(d, site, camera) ==
  IF KeyIndex(d, site, 1) = 0 THEN Append(d, [key |-> site, value |-> <<camera>>])
  ELSE [d EXCEPT ![KeyIndex(d, site, 1)].value = <<camera>>]

\* `if site not in sites: sites[site] = []` then `sites[site].append(camera)`
AddToSite(d, site, camera) ==
  LET d1 == IF KeyIndex(d, site, 1) = 0 THEN Append(d, [key |-> site, value |-> <<>>]) ELSE d
      i == KeyIndex(d1, site, 1)
  IN [d1 EXCEPT ![i].value = Append(@, camera)]

\* The body of the loop of group_cameras_by_site for one camera;
\* camera['site'] raises KeyError on a record without the field.
GroupStep(acc, camera) ==
  IF ~HasKey(camera, "site") THEN [raised |-> TRUE, sites |-> acc.sites]
  ELSE [raised |-> FALSE, sites |-> AddToSite(acc.sites, camera.site, camera)]

\* The loop over cameras lo..hi, in list order, stopping at the first raise.
\* (The range is split in two halves to keep the evaluation shallow; the
\* cameras are still visited first to last.)
RECURSIVE GroupRange(_, _, _, _)
GroupRange(list, lo, hi, acc) ==
  IF lo > hi \/ acc.raised THEN acc
  ELSE IF lo = hi THEN GroupStep(acc, list[lo])
  ELSE LET mid == (lo + hi) \div 2
           left == GroupRange(list, lo, mid, acc)
       IN GroupRange(list, mid + 1, hi, left)

group_cameras_by_site(list) == GroupRange(list, 1, Len(list), [raised |-> FALSE, sites |-> <<>>])

GroupCameras ==
  /\ pc = "group" /\ error = NoError
  /\ LET r == group_cameras_by_site(cameras) IN
       IF r.raised
         THEN error' = "KeyError" /\ UNCHANGED <<pc, sites>>
         ELSE /\ sites' = r.sites
              /\ error' = error
              /\ pc' = IF Len(r.sites) = 0 THEN "growth" ELSE "status"
  /\ UNCHANGED <<API_KEY, serverPages, now, requests, cameras, page, siteIdx, files, report>>

\* ------------------------------------------------------------ files
RECURSIVE FileIndex(_, _, _)
FileIndex(fs, name, i) ==
  IF i > Len(fs) THEN 0
  ELSE IF fs[i].name = name THEN i
  ELSE FileIndex(fs, name, i + 1)

FileExists(fs, name) == FileIndex(fs, name, 1) # 0

\* plt.savefig(name): creates the file or overwrites it.
SaveFig(fs, name, chart) ==
  IF FileExists(fs, name)
    THEN [fs EXCEPT ![FileIndex(fs, name, 1)].chart = chart]
    ELSE Append(fs, [name |-> name, chart |-> chart])

\* ------------------------------------------------------------ status charts
\* A tally that assigns instead of adding: `status_counts[...] = 1`.
CountStatus_Assign(counts, status) == [counts EXCEPT ![status] = 1]

\* `status_counts[camera['status']] += 1`
CountStatus(counts, status) == [counts EXCEPT ![status] = @ + 1]

\* A tally loop that skips a status it does not know instead of raising.
TallyStep_Skip(acc, camera) ==
  IF ~HasKey(camera, "status") THEN [raised |-> TRUE, counts |-> acc.counts]
  ELSE IF ~HasKey(acc.counts, camera.status) THEN acc
  ELSE [raised |-> FALSE, counts |-> [acc.counts EXCEPT ![camera.status] = @ + 1]]

\* The body of the tally loop for one camera; a record without a status, or
\* a status that is not a key of status_counts, raises KeyError.
TallyStep(acc, camera) ==
  IF ~HasKey(camera, "status") THEN [raised |-> TRUE, counts |-> acc.counts]
  ELSE IF ~HasKey(acc.counts, camera.status) THEN [raised |-> TRUE, counts |-> acc.counts]
  ELSE [raised |-> FALSE, counts |-> CountStatus(acc.counts, camera.status)]

\* The tally loop over cameras lo..hi of one site, in order.
RECURSIVE TallyRange(_, _, _, _)
TallyRange(list, lo, hi, acc) ==
  IF lo > hi \/ acc.raised THEN acc
  ELSE IF lo = hi THEN TallyStep(acc, list[lo])
  ELSE LET mid == (lo + hi) \div 2
           left == TallyRange(list, lo, mid, acc)
       IN TallyRange(list, mid + 1, hi, left)

\* `status_counts = {"Live": 0, "Offline": 0}` and the loop of lines 45-46.
StatusCounts(list) ==
  TallyRange(list, 1, Len(list), [raised |-> FALSE, counts |-> [Live |-> 0, Offline |-> 0]])

\* The bar chart of one site: labels and sizes in the dictionary's key order.
StatusChart(counts) ==
  [labels |-> <<"Live", "Offline">>, sizes |-> <<counts.Live, counts.Offline>>]

\* One iteration of the loop of create_camera_status_by_site_bar_graph: the
\* tally of site number siteIdx and the savefig of its chart.
RenderStatusChart ==
  /\ pc = "status" /\ error = NoError
  /\ LET entry == sites[siteIdx]
         r == StatusCounts(entry.value)
     IN IF r.raised
          THEN error' = "KeyError" /\ UNCHANGED <<pc, siteIdx, files>>
          ELSE \E ok \in BOOLEAN :
                 IF ~ok
                   THEN error' = "IOError" /\ UNCHANGED <<pc, siteIdx, files>>
                   ELSE /\ files' = SaveFig(files, StatusBarPath(entry.key), StatusChart(r.counts))
                        /\ error' = error
                        /\ siteIdx' = siteIdx + 1
                        /\ pc' = IF siteIdx = Len(sites) THEN "growth" ELSE pc
  /\ UNCHANGED <<API_KEY, serverPages, now, requests, cameras, page, sites, report>>

\* ------------------------------------------------------------ growth chart
\* int((datetime.now() - timedelta(days=365)).timestamp()): the microseconds
\* are truncated.
OneYearAgoEpoch(t) == t.sec - YearSeconds

\* An inclusive comparison: `>= one_year_ago_epoch`.
AfterCutoff_Inclusive(epoch, cutoff) == epoch >= cutoff

\* `install_date_epoch > one_year_ago_epoch`
AfterCutoff(epoch, cutoff) == epoch > cutoff

\* `if month not in date_counts: date_counts[month] = 0` then
\* `date_counts[month] += 1`
CountMonth(d, month) ==
  LET d1 == IF KeyIndex(d, month, 1) = 0 THEN Append(d, [key |-> month, value |-> 0]) ELSE d
      i == KeyIndex(d1, month, 1)
  IN [d1 EXCEPT ![i].value = @ + 1]

\* The body of the loop of create_camera_growth_bar_graph for one camera;
\* camera['date_added'] raises KeyError on a record without the field.
GrowthStep(acc, camera, cutoff) ==
  IF ~HasKey(camera, "date_added") THEN [raised |-> TRUE, date_counts |-> acc.date_counts]
  ELSE IF AfterCutoff(camera.date_added, cutoff)
    THEN [raised |-> FALSE, date_counts |-> CountMonth(acc.date_counts, StrfYearMonth(camera.date_added))]
    ELSE acc

\* The loop over cameras lo..hi, in order.
RECURSIVE GrowthRange(_, _, _, _, _)
GrowthRange(list, lo, hi, cutoff, acc) ==
  IF lo > hi \/ acc.raised THEN acc
  ELSE IF lo = hi THEN GrowthStep(acc, list[lo], cutoff)
  ELSE LET mid == (lo + hi) \div 2
           left == GrowthRange(list, lo, mid, cutoff, acc)
       IN GrowthRange(list, mid + 1, hi, cutoff, left)

\* `date_counts = {}`, the cutoff and the loop of lines 59-70.
DateCounts(list, t) ==
  GrowthRange(list, 1, Len(list), OneYearAgoEpoch(t), [raised |-> FALSE, date_counts |-> <<>>])

\* sorted() of a list of strings.
RECURSIVE InsertSorted(_, _)
InsertSorted(s, x) ==
  IF s = <<>> THEN <<x>>
  ELSE IF StrLess(x, Head(s)) THEN <<x>> \o s
  ELSE <<Head(s)>> \o InsertSorted(Tail(s), x)

RECURSIVE SortedStr(_)
SortedStr(s) ==
  IF s = <<>> THEN <<>>
  ELSE InsertSorted(SortedStr(SubSeq(s, 1, Len(s) - 1)), s[Len(s)])

DictKeys(d) == [i \in 1..Len(d) |-> d[i].key]
DictGet(d, key) == d[KeyIndex(d, key, 1)].value

\* `dates = sorted(date_counts.keys())`, `counts = [date_counts[date] ...]`
GrowthChart(d) ==
  LET dates == SortedStr(DictKeys(d))
  IN [dates |-> dates, counts |-> [i \in 1..Len(dates) |-> DictGet(d, dates[i])]]

\* create_camera_growth_bar_graph, whole.
RenderGrowthChart ==
  /\ pc = "growth" /\ error = NoError
  /\ LET r == DateCounts(cameras, now) IN
       IF r.raised
         THEN error' = "KeyError" /\ UNCHANGED <<pc, files>>
         ELSE \E ok \in BOOLEAN :
                IF ~ok
                  THEN error' = "IOError" /\ UNCHANGED <<pc, files>>
                  ELSE /\ files' = SaveFig(files, GrowthBarPath, GrowthChart(r.date_counts))
                       /\ error' = error
                       /\ pc' = "report"
  /\ UNCHANGED <<API_KEY, serverPages, now, requests, cameras, page, sites, siteIdx, report>>

\* ------------------------------------------------------------ report
Spacer(h) == [kind |-> "Spacer", arg |-> h]
Image(path) == [kind |-> "Image", arg |-> path]
Table(data) == [kind |-> "Table", arg |-> data]

\* "Site: "
SiteTitlePrefix == <<83, 105, 116, 101, 58, 32>>

\* The local `count` of create_pdf_report: no statement binds it before the
\* loop reads it.
UnboundLocal == [bound |-> FALSE, value |-> 0]

\* Lines 92-107: logo and title.
CoverElements ==
  << Spacer(12), Image(LogoPath), Spacer(12), Table(<< <<"Verkada Install Site Report">> >>), Spacer(12) >>

\* One table row (lines 131-137).
TableRow(camera) ==
  << camera.name, camera.model, camera.serial, StrfDate(camera.date_added) >>

\* The loop of lines 130-138 from camera i on: a row is appended, then
\* `count += 1` reads count and raises UnboundLocalError when it is unbound.
RECURSIVE RowsFrom(_, _, _, _)
RowsFrom(list, i, data, count) ==
  IF i > Len(list) THEN [raised |-> FALSE, data |-> data, count |-> count]
  ELSE LET data1 == Append(data, TableRow(list[i])) IN
       IF ~count.bound THEN [raised |-> TRUE, data |-> data1, count |-> count]
       ELSE RowsFrom(list, i + 1, data1, [bound |-> TRUE, value |-> count.value + 1])

\* `sorted(sites.items())`: the keys are distinct, so the order is that of
\* the site labels.
SortedItems(d) ==
  LET keys == SortedStr(DictKeys(d))
  IN [i \in 1..Len(keys) |-> [key |-> keys[i], value |-> DictGet(d, keys[i])]]

\* The loop of lines 112-157 from sorted site i on.
RECURSIVE SectionsFrom(_, _, _, _)
SectionsFrom(items, i, elements, count) ==
  IF i > Len(items) THEN [raised |-> FALSE, elements |-> elements]
  ELSE LET e1 == elements \o << Table(<< <<SiteTitlePrefix \o items[i].key>> >>), Spacer(12),
                               Image(StatusBarPath(items[i].key)), Spacer(12) >>
           r == RowsFrom(items[i].value, 1, << <<"Name", "Model", "Serial", "Date Added">> >>, count)
       IN IF r.raised THEN [raised |-> TRUE, elements |-> e1]
          ELSE SectionsFrom(items, i + 1, e1 \o << Table(r.data), Spacer(24) >>, r.count)

\* doc.build reads every image it embeds; a chart image must be in the
\* working directory (the logo is part of the environment).
ImagesPresent(fs, elements) ==
  \A i \in 1..Len(elements) :
    (elements[i].kind = "Image" /\ elements[i].arg # LogoPath) => FileExists(fs, elements[i].arg)

\* create_pdf_report, whole.
CreatePdfReport ==
  /\ pc = "report" /\ error = NoError
  /\ LET r == SectionsFrom(SortedItems(sites), 1, CoverElements, UnboundLocal) IN
       IF r.raised
         THEN error' = "UnboundLocalError" /\ UNCHANGED <<pc, report>>
         ELSE \E ok \in BOOLEAN :
                IF ~ok \/ ~ImagesPresent(files, r.elements)
                  THEN error' = "IOError" /\ UNCHANGED <<pc, report>>
                  ELSE /\ report' = [written |-> TRUE, elements |-> r.elements]
                       /\ error' = error
                       /\ pc' = "done"
  /\ UNCHANGED <<API_KEY, serverPages, now, requests, cameras, page, sites, siteIdx, files>>

Next ==
  \/ LoadModule
  \/ FetchPage
  \/ GroupCameras
  \/ RenderStatusChart
  \/ RenderGrowthChart
  \/ CreatePdfReport

Spec == Init /\ [][Next]_vars

\* ============================================================ properties
Min(a, b) == IF a < b THEN a ELSE b

RECURSIVE Flatten(_)
Flatten(pages) == IF pages = <<>> THEN <<>> ELSE Head(pages) \o Flatten(Tail(pages))

\* fetch_camera_data has returned.
FetchReturned == pc \in {"group", "status", "growth", "report", "done"}

\* group_cameras_by_site has returned.
GroupReturned == pc \in {"status", "growth", "report", "done"}

\* The index of the first served page that holds fewer than 200 records.
FirstShortPage ==
  CHOOSE k \in 1..(Len(serverPages) + 1) :
    /\ Len(ServerResponse(serverPages, k)) < 200
    /\ \A j \in 1..(k - 1) : Len(ServerResponse(serverPages, j)) = 200

\* C1: the requests carry page tokens 1, 2, ..., in that order, each with
\* page size 200; none is issued past the first short page k; the loop is
\* still running only while every page so far was full; and once the fetch
\* has returned exactly k requests were made.
C1_PageTokens ==
  /\ \A i \in 1..Len(requests) : requests[i].page_token = i /\ requests[i].page_limit = 200
  /\ Len(requests) <= FirstShortPage
  /\ (pc = "fetch" /\ error = NoError) => Len(requests) < FirstShortPage
  /\ FetchReturned => Len(requests) = FirstShortPage

\* Pages of 200 then 50 records were fetched with exactly two requests.
C1_Witness ==
  /\ FetchReturned
  /\ Len(serverPages) = 2 /\ Len(serverPages[1]) = 200 /\ Len(serverPages[2]) = 50
  /\ Len(requests) = 2

\* The server holds an inventory of N records and answers page token p with
\* records (p-1)*200+1 .. min(p*200, N).
IsInventoryServer ==
  LET inv == Flatten(serverPages)
  IN \A p \in 1..(Len(serverPages) + 1) :
       ServerResponse(serverPages, p) = SubSeq(inv, (p - 1) * 200 + 1, Min(p * 200, Len(inv)))

\* C2: against an inventory server the fetch needs at most N div 200 + 1
\* requests, and what it returns is the whole inventory: all N records,
\* each once, in server order.
C2_CompleteList ==
  LET inv == Flatten(serverPages)
  IN IsInventoryServer =>
       /\ Len(requests) <= (Len(inv) \div 200) + 1
       /\ (pc = "fetch" /\ error = NoError) => page <= (Len(inv) \div 200) + 1
       /\ FetchReturned =>
            /\ cameras = inv
            /\ Len(cameras) = Len(inv)
            /\ \A i, j \in 1..Len(cameras) : cameras[i].serial = cameras[j].serial => i = j
            /\ Len(requests) = (Len(inv) \div 200) + 1

\* An inventory of exactly 200 records: the second request returned an
\* empty page and the list holds the 200 records.
C2_Witness ==
  /\ IsInventoryServer
  /\ FetchReturned
  /\ Len(Flatten(serverPages)) = 200
  /\ Len(requests) = 2
  /\ Len(cameras) = 200

KeyUnsetOrEmpty == API_KEY.set = FALSE \/ API_KEY.value = ""

\* C3: with the credential unset or empty the run never leaves the import,
\* issues no request, enters no stage, writes nothing, and its only step
\* raises the configuration error.
C3_MissingCredential ==
  /\ [](KeyUnsetOrEmpty =>
          /\ pc = "load"
          /\ error \in {NoError, "ValueError"}
          /\ requests = <<>> /\ cameras = <<>> /\ sites = <<>> /\ files = <<>>
          /\ ~report.written)
  /\ [][KeyUnsetOrEmpty => error' = "ValueError"]_vars

\* The credential is set to the empty string and the import has raised.
C3_Witness ==
  /\ API_KEY.set /\ API_KEY.value = ""
  /\ error = "ValueError"
  /\ requests = <<>>

\* The cameras of a list whose site label is the given one, in list order.
CamerasOfSite(list, site) ==
  LET AtSite(c) == c.site = site IN SelectSeq(list, AtSite)

\* C4: the grouping is a partition of the device list: one group per site
\* label observed, group keys distinct, each group the devices of its label
\* in fetch order, every device in exactly one group, and the group sizes
\* sum to the number of devices.
C4_Partition ==
  GroupReturned =>
    /\ \A g, h \in 1..Len(sites) : sites[g].key = sites[h].key => g = h
    /\ {sites[g].key : g \in 1..Len(sites)} = {cameras[i].site : i \in 1..Len(cameras)}
    /\ \A g \in 1..Len(sites) : sites[g].value = CamerasOfSite(cameras, sites[g].key)
    /\ \A i \in 1..Len(cameras) :
         Cardinality({g \in 1..Len(sites) :
                        \E j \in 1..Len(sites[g].value) : sites[g].value[j].serial = cameras[i].serial}) = 1
    /\ SumSeq([g \in 1..Len(sites) |-> Len(sites[g].value)]) = Len(cameras)

\* Three devices in two sites, the two devices of one site not adjacent.
C4_Witness ==
  /\ GroupReturned
  /\ Len(cameras) = 3 /\ Len(sites) = 2
  /\ cameras[1].site = cameras[3].site /\ cameras[1].site # cameras[2].site

\* The status chart of site number g has been rendered and saved.
StatusChartDone(g) ==
  \/ pc \in {"growth", "report", "done"}
  \/ pc = "status" /\ g < siteIdx

AllStatusKnown(list) ==
  \A j \in 1..Len(list) : "status" \in DOMAIN list[j] /\ list[j].status \in {"Live", "Offline"}

CountWithStatus(list, status) == Cardinality({j \in 1..Len(list) : list[j].status = status})

\* C5: for every site whose devices all report Live or Offline, the chart
\* saved for the site shows the number of its Live devices and the number
\* of its Offline devices, and the two add up to the site's device count.
C5_StatusTally ==
  \A g \in 1..Len(sites) :
    (StatusChartDone(g) /\ AllStatusKnown(sites[g].value)) =>
      /\ FileExists(files, StatusBarPath(sites[g].key))
      /\ LET chart == files[FileIndex(files, StatusBarPath(sites[g].key), 1)].chart
         IN /\ chart.labels = <<"Live", "Offline">>
            /\ chart.sizes[1] = CountWithStatus(sites[g].value, "Live")
            /\ chart.sizes[2] = CountWithStatus(sites[g].value, "Offline")
            /\ chart.sizes[1] + chart.sizes[2] = Len(sites[g].value)

\* A site with two Live devices and one Offline device has its chart.
C5_Witness ==
  \E g \in 1..Len(sites) :
    /\ StatusChartDone(g)
    /\ AllStatusKnown(sites[g].value)
    /\ CountWithStatus(sites[g].value, "Live") = 2
    /\ CountWithStatus(sites[g].value, "Offline") = 1

\* Installed more than 365 days before the run time t (to the microsecond).
MoreThanAYearBefore(epoch, t) ==
  \/ epoch + 365 * 86400 < t.sec
  \/ epoch + 365 * 86400 = t.sec /\ t.usec > 0

\* Installed after the cutoff t - 365 days.
InsideWindow(epoch, t) == epoch + 365 * 86400 > t.sec

\* C6: in the saved growth chart no device installed more than 365 days
\* before the run time is counted, every device inside the window is
\* counted in the bucket of its year-month and in no other (the buckets are
\* distinct), the counts sum to the number of devices inside the window,
\* and no bucket is empty.
C6_GrowthSeries ==
  FileExists(files, GrowthBarPath) =>
    LET chart == files[FileIndex(files, GrowthBarPath, 1)].chart
        Inside == {i \in 1..Len(cameras) : InsideWindow(cameras[i].date_added, now)}
        NotOld == {i \in 1..Len(cameras) : ~MoreThanAYearBefore(cameras[i].date_added, now)}
        InMonth(S, m) == {i \in S : StrfYearMonth(cameras[i].date_added) = m}
    IN /\ Len(chart.counts) = Len(chart.dates)
       /\ \A b, c \in 1..Len(chart.dates) : chart.dates[b] = chart.dates[c] => b = c
       /\ \A b \in 1..Len(chart.dates) :
            /\ chart.counts[b] <= Cardinality(InMonth(NotOld, chart.dates[b]))
            /\ chart.counts[b] >= Cardinality(InMonth(Inside, chart.dates[b]))
            /\ chart.counts[b] > 0
       /\ \A i \in Inside : \E b \in 1..Len(chart.dates) : chart.dates[b] = StrfYearMonth(cameras[i].date_added)
       /\ SumSeq(chart.counts) = Cardinality(Inside)

\* The growth chart of an inventory with a device older than the window,
\* and devices inside it in two different months, run at a time with
\* microseconds.
C6_Witness ==
  /\ FileExists(files, GrowthBarPath)
  /\ now.usec > 0
  /\ \E i \in 1..Len(cameras) : MoreThanAYearBefore(cameras[i].date_added, now)
  /\ Len(files[FileIndex(files, GrowthBarPath, 1)].chart.dates) = 2
  /\ Len(cameras) = 3

\* The status-chart images of the report, and its device tables, in order.
ReportImages ==
  LET IsChart(e) == e.kind = "Image" /\ e.arg # LogoPath IN SelectSeq(report.elements, IsChart)

ReportTables ==
  LET IsDeviceTable(e) == e.kind = "Table" /\ Len(e.arg) >= 1 /\ Len(e.arg[1]) = 4
  IN SelectSeq(report.elements, IsDeviceTable)

\* create_pdf_report has run to its end or to an exception of its own code
\* (not a failed file operation).
ReportStageRan ==
  \/ pc = "done"
  \/ pc = "report" /\ error \notin {NoError, "IOError"}

\* C7: the report built for a site grouping has one section per site, in
\* alphabetical order of the site labels, and the table of each section has
\* one row per device of the site, in fetch order.
C7_ReportSections ==
  ReportStageRan =>
    /\ report.written
    /\ Len(ReportImages) = Len(sites)
    /\ Len(ReportTables) = Len(sites)
    /\ \A s \in 1..Len(ReportImages) :
         /\ s > 1 => StrLess(ReportImages[s - 1].arg, ReportImages[s].arg)
         /\ \E g \in 1..Len(sites) :
              /\ ReportImages[s].arg = StatusBarPath(sites[g].key)
              /\ Len(ReportTables[s].arg) = Len(sites[g].value) + 1
              /\ \A j \in 1..Len(sites[g].value) :
                   ReportTables[s].arg[j + 1][3] = sites[g].value[j].serial

\* Every device the server holds has all the fields the program reads and a
\* status of Live or Offline.
WellFormedInventory ==
  \A p \in 1..Len(serverPages) : \A i \in 1..Len(serverPages[p]) :
    /\ {"name", "model", "serial", "site", "status", "date_added"} \subseteq DOMAIN serverPages[p][i]
    /\ serverPages[p][i].status \in {"Live", "Offline"}

RunEnded == pc = "done" \/ error # NoError

\* C8: with the credential set, a well-formed inventory, and no failed
\* request or file operation, the run goes through fetch, group, site
\* charts, growth chart and report, and ends in normal completion with the
\* report document written.
C8_NormalCompletion ==
  (/\ ~KeyUnsetOrEmpty
   /\ WellFormedInventory
   /\ error \notin {"RequestError", "IOError"}
   /\ RunEnded) =>
    /\ pc = "done"
    /\ error = NoError
    /\ report.written
    /\ FileExists(files, GrowthBarPath)
    /\ \A g \in 1..Len(sites) : FileExists(files, StatusBarPath(sites[g].key))

\* C9: a failure ends the run where it happened.  Once an exception is
\* raised no step follows (no retry, no later stage); no report document
\* exists; after a failed request nothing but the requests made so far
\* exists; a site with an unknown status stops the chart stage with that
\* site's chart unwritten, so no later stage ever runs on such a site; and
\* the step that raises, like every other step, leaves the chart files
\* written before it in place.
C9_FatalFailure ==
  /\ [](error # NoError =>
          /\ pc # "done"
          /\ ~report.written
          /\ (error = "RequestError" =>
                pc = "fetch" /\ sites = <<>> /\ files = <<>> /\ requests[Len(requests)].page_token = page))
  /\ [](pc \in {"growth", "report", "done"} =>
          \A g \in 1..Len(sites) : AllStatusKnown(sites[g].value))
  /\ [][error # NoError => UNCHANGED vars]_vars
  /\ [][(pc = "status" /\ ~AllStatusKnown(sites[siteIdx].value)) =>
          (error' = "KeyError" /\ pc' = "status")]_vars
  /\ [][error' # NoError => files' = files]_vars
  /\ [][\A i \in 1..Len(files) : i <= Len(files') /\ files'[i] = files[i]]_vars

\* The chart stage failed on a status outside {Live, Offline} after the
\* chart of an earlier site was written.
C9_Witness ==
  /\ pc = "status" /\ error = "KeyError"
  /\ siteIdx = 2
  /\ Len(files) = 1
  /\ ~AllStatusKnown(sites[2].value)

\* The number of times the report embeds the image file of a name.
EmbedCount(name) ==
  Cardinality({i \in 1..Len(report.elements) :
                 report.elements[i].kind = "Image" /\ report.elements[i].arg = name})

\* C10: every chart file written by the run, the status chart of each site
\* and the growth chart, is embedded exactly once by the report builder,
\* and every chart the report builder embeds is a file the run wrote.
C10_ChartsConsumedOnce ==
  ReportStageRan =>
    /\ \A f \in 1..Len(files) : EmbedCount(files[f].name) = 1
    /\ \A i \in 1..Len(ReportImages) : FileExists(files, ReportImages[i].arg)
====
